---- MODULE Spec2Model ----
(***************************************************************************)
(* Speedy (RSVP reader): the reading cursor (src/reading/state.rs), the    *)
(* timing model and the tokenizer (src/reading/timing.rs), the Kitty       *)
(* graphics renderer (src/rendering/kitty.rs, viewport.rs), and startup    *)
(* and the event loop (src/main.rs, src/ui/terminal.rs).                   *)
(*                                                                         *)
(* Conventions.  A Rust String is a sequence of one-character strings.     *)
(* Indices are zero-based as in the source: token i of the Vec is          *)
(* tokens[i + 1] of the TLA+ sequence.  Option<usize>::None is None.       *)
(* f64 factors are fixed-point with denominator 20 (3.0 is 60, 1.15 is     *)
(* 23), a product of a base delay and two factors has denominator 400.     *)
(***************************************************************************)
EXTENDS Integers, Sequences, FiniteSets, TLC

VARIABLES
    text,           \* the raw text handed to tokenize_text
    tokens,         \* ReadingState.tokens
    current_index,  \* ReadingState.current_index (usize, zero-based)
    wpm,            \* ReadingState.wpm (u32)
    panicked,       \* the thread has panicked (overflow check, print! on a failed write)
    last,           \* the last call: its name, the state it started from, its result
    renderer,       \* the fields of the KittyGraphicsRenderer
    stdout,         \* the graphics commands written to standard output, in order
    rcall,          \* the last renderer call: its arguments, the state before, its result
    frames,         \* the image ids of the frames whose render returned Ok, in order
    pc,             \* where main is: in startup, in the event loop, or ended
    app,            \* the App: its mode, and whether it has a reading_state (the cursor)
    capability      \* the GraphicsCapability main detected

vars == <<text, tokens, current_index, wpm, panicked, last,
          renderer, stdout, rcall, frames, pc, app, capability>>

\* What the cursor, timing and tokenizer operations leave alone.
rvars == <<renderer, stdout, rcall, frames, pc, app, capability>>

-----------------------------------------------------------------------------
(* Bounds of the model *)

MaxTokens == 4
MaxPunct == 2
MaxDurWpm == 400
MaxTextLen == 5
MaxFrames == 2
MaxWritten == 4
MaxPayload == 12289
MaxWpm == 1000
MaxWordLen == 11
MaxChunks == (MaxPayload + 4095) \div 4096

-----------------------------------------------------------------------------
(* Machine integers *)

I32Max == 2147483647
I32Min == (-2147483647) - 1

None == -1

\* i32 addition: the exact sum when it fits, otherwise the wrapped sum of a
\* release build; overflow tells the two apart.
I32Overflows(a, b) ==
    \/ b > 0 /\ a > I32Max - b
    \/ b < 0 /\ a < I32Min - b

I32WrappingAdd(a, b) ==
    IF b > 0 /\ a > I32Max - b THEN (a + I32Min) + (b + I32Min)
    ELSE IF b < 0 /\ a < I32Min - b THEN (a - I32Min) + (b - I32Min)
    ELSE a + b

Clamp(x, lo, hi) == IF x < lo THEN lo ELSE IF x > hi THEN hi ELSE x

Min(S) == CHOOSE x \in S : \A y \in S : x <= y
Max(S) == CHOOSE x \in S : \A y \in S : x >= y

-----------------------------------------------------------------------------
(* TimingConfig::default *)

wpm_range_start == 50
wpm_range_end == 1000
long_word_threshold == 10
long_word_penalty == 23
period_multiplier == 60
comma_multiplier == 30
question_multiplier == 60
exclamation_multiplier == 60
newline_multiplier == 80
One == 20

-----------------------------------------------------------------------------
(* Token (src/reading/token.rs) and the values the model draws *)

Token(t, p, s) == [text |-> t, punctuation |-> p, is_sentence_start |-> s]

\* The sequences over S of length up to n.
SeqsUpTo(S, n) == UNION {[1..k -> S] : k \in 0..n}

\* Tokens of the cursor specification: only the sentence flag varies.
NavTokens == {Token(<<"r">>, <<>>, b) : b \in BOOLEAN}

\* Initial words per minute a caller may pass to ReadingState::new.
InitWpms == {0, 50, 300, 1000, 1001, I32Max}

\* Deltas a caller may pass to adjust_wpm.
Deltas == {-200, -50, 50, 500, I32Max, I32Min}

Call(op, idx, w, delta, ret, dur) ==
    [op |-> op, idx |-> idx, w |-> w, delta |-> delta, ret |-> ret, dur |-> dur, mult |-> 0]

\* Words of n characters, none of them punctuation.
Word(n) == [i \in 1..n |-> "r"]

\* Punctuation marks a token may carry; ";" stands for any other character.
Marks == {".", ",", "?", "!", "\n", ";"}

\* Tokens of the timing specification: short, threshold-long and long words
\* with every punctuation list up to MaxPunct.
DurTokens ==
    {Token(Word(n), p, TRUE) :
        n \in {0, long_word_threshold, long_word_threshold + 1},
        p \in SeqsUpTo(Marks, MaxPunct)}

-----------------------------------------------------------------------------
(* Timing arithmetic (src/reading/timing.rs, src/reading/state.rs)         *)
(*                                                                         *)
(* A delay is base * factor * penalty with base an integer and the factors *)
(* multiples of 1/20, so the exact product is q / 400 for an integer q.    *)
(* base * factor is exact in f64.  The f64 nearest to 1.15 lies below 1.15 *)
(* by 0.4 * 2^-52, so the f64 product with the penalty lies below q / 400  *)
(* by less than one unit in the last place; that matters to truncation and *)
(* rounding only when q / 400 is a multiple of 1/2, and then the f64       *)
(* product is either q / 400 itself or the f64 just below it.              *)

\* Mutant: the quotient is truncated instead of rounded.
wpm_to_milliseconds_truncating(w) ==
    LET m == IF w >= 1 THEN w ELSE 1
    IN  60000 \div m

\* (60_000.0 / wpm.max(1) as f64).round() as u64: the quotient is a
\* half-integer only when it is exact, so rounding half away from zero is
\* floor(quotient + 1/2).
wpm_to_milliseconds(w) ==
    LET m == IF w >= 1 THEN w ELSE 1
    IN  IF m > 120000 THEN 0 ELSE (120000 + m) \div (2 * m)

RECURSIVE Pow2Floor(_, _)
Pow2Floor(n, p) == IF 2 * p > n THEN p ELSE Pow2Floor(n, 2 * p)

\* x * 1.15 in f64 when n = 1.15 * x = q / 400 is a multiple of 1/2: with n in
\* [2^e, 2^(e+1)) the exact product with the f64 1.15 is n minus
\* (8/23) * (n / 2^e) units in the last place, which rounds to the f64 below n
\* exactly when (8/23) * (n / 2^e) > 1/2 (a tie goes to n, whose significand
\* is even).
f64_product_below(q) ==
    /\ q > 0
    /\ q % 200 = 0
    /\ LET n2 == q \div 200
       IN  16 * n2 > 23 * Pow2Floor(n2, 1)

\* The f64 product base * factor * penalty as [q, below]: the value q / 400,
\* or the f64 just below it.
f64_product(base, factor, penalty) ==
    LET q == base * factor * penalty
    IN  [q |-> q, below |-> penalty = long_word_penalty /\ f64_product_below(q)]

\* `as u64` of a non-negative f64: truncation.
as_u64(v) ==
    IF v.below /\ v.q % 400 = 0 THEN (v.q \div 400) - 1 ELSE v.q \div 400

\* f64::round: to the nearest integer, halves away from zero.
f64_round(v) ==
    IF v.below /\ v.q % 400 = 200 THEN v.q \div 400 ELSE (v.q + 200) \div 400

\* get_punctuation_multiplier (3.0, 1.5, 3.0, 3.0, 4.0, 1.0 in twentieths)
get_punctuation_multiplier(p) ==
    CASE p = "." -> 60
      [] p = "," -> 30
      [] p = "?" -> 60
      [] p = "!" -> 60
      [] p = "\n" -> 80
      [] OTHER -> 20

f64_max(a, b) == IF a >= b THEN a ELSE b

\* get_max_punctuation_multiplier: .map(get_punctuation_multiplier).fold(acc, f64::max)
RECURSIVE fold_max(_, _)
fold_max(list, acc) ==
    IF list = <<>> THEN acc
    ELSE fold_max(Tail(list), f64_max(acc, get_punctuation_multiplier(Head(list))))

get_max_punctuation_multiplier(punctuation_list) ==
    fold_max(punctuation_list, 20)

\* The match of calculate_token_duration on a mark, with the configuration.
config_multiplier(p) ==
    CASE p = "." -> period_multiplier
      [] p = "?" -> question_multiplier
      [] p = "!" -> exclamation_multiplier
      [] p = "," -> comma_multiplier
      [] p = "\n" -> newline_multiplier
      [] OTHER -> One

\* calculate_token_duration: .map(|&p| match p {..}).fold(acc, f64::max)
RECURSIVE fold_config_max(_, _)
fold_config_max(list, acc) ==
    IF list = <<>> THEN acc
    ELSE fold_config_max(Tail(list), f64_max(acc, config_multiplier(Head(list))))

RECURSIVE fold_config_product(_, _)
fold_config_product(list, acc) ==
    IF list = <<>> THEN acc
    ELSE fold_config_product(Tail(list), (acc * config_multiplier(Head(list))) \div One)

\* Mutant: the factors of stacked marks multiply.
punctuation_multiplier_product(token) ==
    IF token.punctuation = <<>> THEN One
    ELSE fold_config_product(token.punctuation, One)

\* calculate_token_duration: punctuation_multiplier
punctuation_multiplier(token) ==
    IF token.punctuation = <<>> THEN One
    ELSE fold_config_max(token.punctuation, One)

\* calculate_token_duration: length_penalty
length_penalty(token) ==
    IF Len(token.text) > long_word_threshold THEN long_word_penalty ELSE One

get_word_length_penalty(word, penalty_multiplier) ==
    IF Len(word) > 10 THEN penalty_multiplier ELSE One

calculate_token_duration(token, w) ==
    as_u64(f64_product(wpm_to_milliseconds(w), punctuation_multiplier(token),
                       length_penalty(token)))

\* calculate_word_delay with penalty_multiplier = 1.15, the only value passed.
calculate_word_delay(word, punctuation, w) ==
    f64_round(f64_product(wpm_to_milliseconds(w),
                          get_max_punctuation_multiplier(punctuation),
                          get_word_length_penalty(word, long_word_penalty)))

-----------------------------------------------------------------------------
(* Tokenizer (src/reading/timing.rs) *)

Upper == {"A", "B", "C", "D", "E", "F", "G", "H", "I", "J", "K", "L", "M",
          "N", "O", "P", "Q", "R", "S", "T", "U", "V", "W", "X", "Y", "Z"}

Digits == {"0", "1", "2", "3", "4", "5", "6", "7", "8", "9"}

\* char::is_whitespace, for the characters of the model
is_whitespace(c) == c \in {" ", "\n", "\t"}

\* The characters of the texts the model tokenizes: a capital, a small letter,
\* a digit, the four trailing marks, a space and a line feed.
Chars == {"D", "r", "3", ".", ",", "!", "?", " ", "\n"}

Last(s) == s[Len(s)]

Front(s) == SubSeq(s, 1, Len(s) - 1)

RECURSIVE Reverse(_)
Reverse(s) == IF s = <<>> THEN <<>> ELSE Append(Reverse(Tail(s)), Head(s))

\* str::lines for texts without carriage returns: the pieces between line
\* feeds, without an empty piece after a final line feed.
RECURSIVE lines_from(_, _, _)
lines_from(t, cur, acc) ==
    IF t = <<>> THEN (IF cur = <<>> THEN acc ELSE Append(acc, cur))
    ELSE IF Head(t) = "\n" THEN lines_from(Tail(t), <<>>, Append(acc, cur))
    ELSE lines_from(Tail(t), Append(cur, Head(t)), acc)

lines(t) == lines_from(t, <<>>, <<>>)

\* str::split_whitespace: the maximal runs of non-whitespace characters.
RECURSIVE split_whitespace_from(_, _, _)
split_whitespace_from(t, cur, acc) ==
    IF t = <<>> THEN (IF cur = <<>> THEN acc ELSE Append(acc, cur))
    ELSE IF is_whitespace(Head(t))
         THEN split_whitespace_from(Tail(t), <<>>, IF cur = <<>> THEN acc ELSE Append(acc, cur))
    ELSE split_whitespace_from(Tail(t), Append(cur, Head(t)), acc)

split_whitespace(t) == split_whitespace_from(t, <<>>, <<>>)

\* str::split('.'): the pieces between full stops, empty pieces included.
RECURSIVE split_dot_from(_, _, _)
split_dot_from(t, cur, acc) ==
    IF t = <<>> THEN Append(acc, cur)
    ELSE IF Head(t) = "." THEN split_dot_from(Tail(t), <<>>, Append(acc, cur))
    ELSE split_dot_from(Tail(t), Append(cur, Head(t)), acc)

split_dot(t) == split_dot_from(t, <<>>, <<>>)

is_sentence_terminator(c) == c = "." \/ c = "?" \/ c = "!"

is_comma(c) == c = ","

\* The while loop of extract_punctuation: pops trailing marks off chars and
\* pushes them onto punctuation_chars.
RECURSIVE pop_trailing(_, _)
pop_trailing(chars, punctuation_chars) ==
    IF chars # <<>> /\ (is_sentence_terminator(Last(chars)) \/ is_comma(Last(chars)))
    THEN pop_trailing(Front(chars), Append(punctuation_chars, Last(chars)))
    ELSE <<chars, punctuation_chars>>

\* Mutant: punctuation_chars.reverse() is missing.
extract_punctuation_unreversed(word) ==
    IF word = <<>> THEN <<<<>>, <<>>>>
    ELSE pop_trailing(word, <<>>)

extract_punctuation(word) ==
    IF word = <<>> THEN <<<<>>, <<>>>>
    ELSE LET popped == pop_trailing(word, <<>>)
         IN  <<popped[1], Reverse(popped[2])>>

ABBREVIATIONS ==
    { <<"D", "r", ".">>, <<"M", "r", ".">>, <<"M", "r", "s", ".">>, <<"M", "s", ".">>,
      <<"S", "t", ".">>, <<"J", "r", ".">>, <<"e", ".", "g", ".">>, <<"i", ".", "e", ".">>,
      <<"v", "s", ".">>, <<"e", "t", "c", ".">> }

is_abbreviation(word) == word \in ABBREVIATIONS

all_ascii_digit(part) == \A i \in 1..Len(part) : part[i] \in Digits

is_decimal_number(word) ==
    LET parts == split_dot(word)
    IN  IF Len(parts) = 2 /\ parts[1] # <<>> /\ parts[2] # <<>>
        THEN all_ascii_digit(parts[1]) /\ all_ascii_digit(parts[2])
        ELSE FALSE

\* tokens.last().cloned(): an Option is the empty or the one-element sequence.
last_token(toks) == IF toks = <<>> THEN <<>> ELSE <<Last(toks)>>

contains(list, c) == \E i \in 1..Len(list) : list[i] = c

detect_sentence_boundary(prev_token, current_word) ==
    IF prev_token = <<>> THEN TRUE
    ELSE LET prev == prev_token[1]
             has_newline == contains(prev.punctuation, "\n")
             has_terminator == \E i \in 1..Len(prev.punctuation) :
                                   is_sentence_terminator(prev.punctuation[i])
             full_prev_word == prev.text \o prev.punctuation
         IN  IF has_newline THEN TRUE
             ELSE IF ~has_terminator THEN FALSE
             ELSE IF is_abbreviation(full_prev_word) THEN FALSE
             ELSE IF is_decimal_number(full_prev_word) THEN FALSE
             ELSE current_word # <<>> /\ Head(current_word) \in Upper

\* The inner loop of tokenize_text: one token per word of the line.
RECURSIVE push_words(_, _)
push_words(words, toks) ==
    IF words = <<>> THEN toks
    ELSE LET word == Head(words)
             extracted == extract_punctuation(word)
             is_start == detect_sentence_boundary(last_token(toks), word)
         IN  push_words(Tail(words),
                        IF word # <<>>
                        THEN Append(toks, Token(extracted[1], extracted[2], is_start))
                        ELSE toks)

\* The outer loop of tokenize_text: the words of each line, then a newline token.
RECURSIVE push_lines(_, _)
push_lines(ls, toks) ==
    IF ls = <<>> THEN toks
    ELSE LET with_words == push_words(split_whitespace(Head(ls)), toks)
             is_start == detect_sentence_boundary(last_token(with_words), <<>>)
         IN  push_lines(Tail(ls), Append(with_words, Token(<<>>, <<"\n">>, is_start)))

is_newline_token(t) == t.punctuation = <<"\n">> /\ t.text = <<>>

tokenize_text(t) ==
    LET toks == push_lines(lines(t), <<>>)
    IN  IF toks # <<>> /\ is_newline_token(Last(toks)) THEN Front(toks) ELSE toks

-----------------------------------------------------------------------------
(* ReadingState (src/reading/state.rs) *)

saturating_sub(a, b) == IF a >= b THEN a - b ELSE 0

\* slice.iter().position(|token| token.is_sentence_start), scanning from k
RECURSIVE position(_, _)
position(s, k) ==
    IF k >= Len(s) THEN None
    ELSE IF s[k + 1].is_sentence_start THEN k
    ELSE position(s, k + 1)

\* slice.iter().enumerate().rev().find(|(_, token)| token.is_sentence_start),
\* scanning down from k
RECURSIVE rfind(_, _)
rfind(s, k) ==
    IF k < 0 THEN None
    ELSE IF s[k + 1].is_sentence_start THEN k
    ELSE rfind(s, k - 1)

current_token(toks, idx) ==
    IF idx < Len(toks) THEN toks[idx + 1] ELSE None

\* Mutant: the comparison with the last index is dropped.
advance_index_unguarded(toks, idx) == idx + 1

advance_index(toks, idx) ==
    IF idx < saturating_sub(Len(toks), 1) THEN idx + 1 ELSE idx

\* Mutant: the scan starts at the current index instead of the one after it.
find_next_sentence_start_from_current(toks, idx) ==
    LET start == idx
    IN  IF start >= Len(toks) THEN None
        ELSE LET pos == position(SubSeq(toks, start + 1, Len(toks)), 0)
             IN  IF pos = None THEN None ELSE pos + start

find_next_sentence_start(toks, idx) ==
    LET start == idx + 1
    IN  IF start >= Len(toks) THEN None
        ELSE LET pos == position(SubSeq(toks, start + 1, Len(toks)), 0)
             IN  IF pos = None THEN None ELSE pos + start

\* Mutant: the slice is searched from its front (.rev() is missing).
find_previous_sentence_start_forward(toks, idx) ==
    IF idx = 0 THEN None
    ELSE LET end == idx
         IN  position(SubSeq(toks, 1, end), 0)

find_previous_sentence_start(toks, idx) ==
    IF idx = 0 THEN None
    ELSE LET end == idx
         IN  rfind(SubSeq(toks, 1, end), end - 1)

\* new_wpm.clamp(start as i32, end as i32) as u32, for the sum the build produced
clamp_wpm(new_wpm) == Clamp(new_wpm, wpm_range_start, wpm_range_end)

new(toks, w) ==
    /\ tokens = toks
    /\ current_index = 0
    /\ wpm = w
    /\ panicked = FALSE
    /\ last = Call("new", 0, w, 0, FALSE, 0)

\* Mutant: the guard compares with len() instead of len() - 1.
advance_to_len ==
    /\ ~panicked
    /\ current_index' = IF current_index < Len(tokens) THEN current_index + 1 ELSE current_index
    /\ last' = Call("advance", current_index, wpm, 0, FALSE, 0)
    /\ UNCHANGED <<text, tokens, wpm, panicked>>
    /\ UNCHANGED rvars

advance ==
    /\ ~panicked
    /\ current_index' = advance_index(tokens, current_index)
    /\ last' = Call("advance", current_index, wpm, 0, FALSE, 0)
    /\ UNCHANGED <<text, tokens, wpm, panicked>>
    /\ UNCHANGED rvars

jump_to_next_sentence ==
    /\ ~panicked
    /\ LET index == find_next_sentence_start(tokens, current_index)
       IN  /\ current_index' = IF index = None THEN current_index ELSE index
           /\ last' = Call("jump_to_next_sentence", current_index, wpm, 0, index # None, 0)
    /\ UNCHANGED <<text, tokens, wpm, panicked>>
    /\ UNCHANGED rvars

jump_to_previous_sentence ==
    /\ ~panicked
    /\ LET index == find_previous_sentence_start(tokens, current_index)
       IN  /\ current_index' = IF index = None THEN current_index ELSE index
           /\ last' = Call("jump_to_previous_sentence", current_index, wpm, 0, index # None, 0)
    /\ UNCHANGED <<text, tokens, wpm, panicked>>
    /\ UNCHANGED rvars

\* Mutant: the speed change also rewinds the cursor.
adjust_wpm_rewinding(delta) ==
    /\ ~panicked
    /\ wpm' = clamp_wpm(I32WrappingAdd(wpm, delta))
    /\ current_index' = 0
    /\ last' = Call("adjust_wpm", current_index, wpm, delta, FALSE, 0)
    /\ UNCHANGED <<text, tokens, panicked>>
    /\ UNCHANGED rvars

\* self.wpm as i32 + delta: a build with overflow checks panics when the sum
\* does not fit, a build without them wraps.
adjust_wpm(delta) ==
    /\ ~panicked
    /\ \/ /\ wpm' = clamp_wpm(I32WrappingAdd(wpm, delta))
          /\ panicked' = FALSE
       \/ /\ I32Overflows(wpm, delta)
          /\ wpm' = wpm
          /\ panicked' = TRUE
    /\ last' = Call("adjust_wpm", current_index, wpm, delta, FALSE, 0)
    /\ UNCHANGED <<text, tokens, current_index>>
    /\ UNCHANGED rvars

current_token_duration ==
    /\ ~panicked
    /\ LET token == current_token(tokens, current_index)
           some == current_index < Len(tokens)
       IN  last' = [Call("current_token_duration", current_index, wpm, 0, FALSE,
                         IF some THEN calculate_token_duration(token, wpm) ELSE 0)
                    EXCEPT !.mult = IF some THEN punctuation_multiplier(token) ELSE 0]
    /\ UNCHANGED <<text, tokens, current_index, wpm, panicked>>
    /\ UNCHANGED rvars

\* A call of the free function calculate_word_delay on the current token.
word_delay ==
    /\ ~panicked
    /\ current_index < Len(tokens)
    /\ LET token == tokens[current_index + 1]
       IN  last' = [Call("calculate_word_delay", current_index, wpm, 0, FALSE,
                         calculate_word_delay(token.text, token.punctuation, wpm))
                    EXCEPT !.mult = get_max_punctuation_multiplier(token.punctuation)]
    /\ UNCHANGED <<text, tokens, current_index, wpm, panicked>>
    /\ UNCHANGED rvars

\* A call of tokenize_text on the text, building a cursor over its result
\* (ReadingState::new_with_default_config).
tokenize ==
    /\ ~panicked
    /\ last.op = "text"
    /\ tokens' = tokenize_text(text)
    /\ current_index' = 0
    /\ last' = Call("tokenize_text", current_index, wpm, 0, FALSE, 0)
    /\ UNCHANGED <<text, wpm, panicked>>
    /\ UNCHANGED rvars

-----------------------------------------------------------------------------
(* Kitty graphics renderer (src/rendering/kitty.rs, src/rendering/viewport.rs) *)

\* A word as the renderer sees it: its number of characters and the pixel
\* width of its glyphs (calculate_string_width, rounded up).
Wd(chars, width) == [chars |-> chars, width |-> width]

\* "", "a", "hello": JetBrains Mono advances 14.4 px per character at 24 px.
Words == {Wd(0, 0), Wd(1, 15), Wd(5, 72)}

\* metrics.height of the bundled font at font_size 24.0, rounded up.
glyph_height == 32

\* TerminalDimensions.pixel_size; the canvases are 16 x 13 and 64 x 27 pixels,
\* one command and three chunks.
Dims(w, h) == [pixel_size |-> <<w, h>>]

DimsSet == {Dims(16, 16), Dims(64, 32)}

\* One escape sequence written to standard output.  a = "T" transmits pixels
\* off..off+len-1 of the encoded payload of image i (s x v pixels) with the
\* more-flag m; a = "d" deletes image i (d = "I") or every image (d = "A");
\* a = "q" is a CSI geometry query (d = "14t" or "18t").  The x and y of a
\* transmit command are left out.
Cmd(a, d, i, s, v, m, off, len) ==
    [a |-> a, d |-> d, i |-> i, s |-> s, v |-> v, m |-> m, off |-> off, len |-> len]

\* The fate of the writes of one call: write number `at` fails (0: none does),
\* inside print! (kind "write": print! panics when writing to stdout fails)
\* or inside flush (kind "flush": flush returns the error).
Io(at, kind) == [at |-> at, kind |-> kind]

NoFailure == Io(0, "flush")

\* Every fate of a call that writes at most n times.
IoPlans(n) == {NoFailure} \cup {Io(at, kind) : at \in 1..n, kind \in {"write", "flush"}}

\* The result of a call that writes: what reached stdout and how it returned.
Written(cmds, ret) == [cmds |-> cmds, ret |-> ret]

\* print!("{}", command); io::stdout().flush() as write number k of a call
print_flush(command, k, io) ==
    IF io.at = k /\ io.kind = "write" THEN Written(<<>>, "Panic")
    ELSE IF io.at = k /\ io.kind = "flush" THEN Written(<<command>>, "Err")
    ELSE Written(<<command>>, "Ok")

\* general_purpose::STANDARD.encode: four characters for every three bytes, padded
base64_len(bytes) == 4 * ((bytes + 2) \div 3)

\* The length of the base64 text of an RGBA buffer of width x height pixels.
encode_image_base64(width, height) == base64_len(4 * width * height)

chunk_size == 4096

\* base64_data.as_bytes().chunks(4096): how many chunks, and chunk i (zero-based)
chunks_len(len) == (len + chunk_size - 1) \div chunk_size

chunk_at(len, i) ==
    [off |-> i * chunk_size,
     len |-> IF (i + 1) * chunk_size <= len THEN chunk_size ELSE len - i * chunk_size]

\* Mutant: the more-flag is set on the last chunk instead of cleared.
more_flag_inverted(i, n) == IF i = n - 1 THEN 1 ELSE 0

more_flag(i, n) == IF i = n - 1 THEN 0 ELSE 1

\* The loop over the chunks: each is printed and flushed, `?` leaves at the
\* first failed flush.
RECURSIVE send_chunks(_, _, _, _, _, _, _)
send_chunks(i, image_id, width, height, len, io, sent) ==
    IF i = chunks_len(len) THEN Written(sent, "Ok")
    ELSE LET chunk == chunk_at(len, i)
             more == more_flag(i, chunks_len(len))
             w == print_flush(Cmd("T", "", image_id, width, height, more, chunk.off, chunk.len),
                              i + 1, io)
         IN  IF w.ret = "Ok"
             THEN send_chunks(i + 1, image_id, width, height, len, io, sent \o w.cmds)
             ELSE Written(sent \o w.cmds, w.ret)

\* base64_data is given by its length len.
transmit_graphics(image_id, width, height, len, io) ==
    IF len <= chunk_size
    THEN print_flush(Cmd("T", "", image_id, width, height, 0, 0, len), 1, io)
    ELSE send_chunks(0, image_id, width, height, len, io, <<>>)

delete_image(image_id, io) == print_flush(Cmd("d", "I", image_id, 0, 0, 0, 0, 0), 1, io)

delete_all_graphics(io) == print_flush(Cmd("d", "A", 0, 0, 0, 0, 0, 0), 1, io)

\* Viewport::query_dimensions: CSI 14t and CSI 18t are written and flushed,
\* the answer is never read, the result is always an error.
query_dimensions(io) ==
    LET first == print_flush(Cmd("q", "14t", 0, 0, 0, 0, 0, 0), 1, io)
        second == print_flush(Cmd("q", "18t", 0, 0, 0, 0, 0, 0), 2, io)
    IN  IF first.ret # "Ok" THEN first
        ELSE IF second.ret # "Ok" THEN Written(first.cmds \o second.cmds, second.ret)
        ELSE Written(first.cmds \o second.cmds, "Err")

\* KittyGraphicsRenderer::new; the viewport is its dimensions, an Option.
KittyGraphicsRenderer_new ==
    [font |-> FALSE, font_metrics |-> FALSE, dimensions |-> <<>>, current_image_id |-> 1]

\* (dims.pixel_size.1 as f32 * 0.85) as u32
reading_zone_height(h) == (h * 17) \div 20

\* create_canvas: the size of the canvas, or nothing without dimensions
create_canvas(self) ==
    IF self.dimensions = <<>> THEN <<>>
    ELSE LET dims == self.dimensions[1]
         IN  <<[width |-> dims.pixel_size[1], height |-> reading_zone_height(dims.pixel_size[2])]>>

\* composite_word: whether the word was drawn on the canvas
composite_word(self, word, anchor_position) ==
    IF ~self.font \/ ~self.font_metrics \/ word.chars = 0 THEN FALSE
    ELSE IF anchor_position >= word.chars THEN FALSE
    ELSE TRUE

\* The outcome of a renderer call: how it returned, what it wrote, the next
\* image id, whether a canvas or image buffer was made on the way, and which
\* write failed ("write": inside print!, "flush": inside flush, "none").
Outcome(ret, cmds, id, canvas, fault) ==
    [ret |-> ret, cmds |-> cmds, current_image_id |-> id, canvas |-> canvas, fault |-> fault]

\* The outcome of a call that returned before writing anything.
Returned(ret, id, canvas) == Outcome(ret, <<>>, id, canvas, "none")

\* The outcome of a call after its writes w; error is what `map_err` makes
\* of a failed flush, a panic is not a return value.
AfterWrites(w, error, id, canvas) ==
    Outcome(IF w.ret = "Err" THEN error ELSE w.ret, w.cmds, id, canvas,
            IF w.ret = "Panic" THEN "write" ELSE IF w.ret = "Err" THEN "flush" ELSE "none")

\* Mutant: an anchor index beyond the word is clamped to its last character.
render_frame_clamping(self, word, anchor_position, io) ==
    IF word.chars = 0 THEN Returned("Ok", self.current_image_id, FALSE)
    ELSE LET anchor == IF anchor_position >= word.chars THEN word.chars - 1
                       ELSE anchor_position
             canvas == create_canvas(self)
         IN  IF canvas = <<>> THEN Returned("RenderFailed", self.current_image_id, FALSE)
             ELSE IF ~composite_word(self, word, anchor)
             THEN Returned("RenderFailed", self.current_image_id, TRUE)
             ELSE LET w == transmit_graphics(self.current_image_id,
                                             canvas[1].width, canvas[1].height,
                                             encode_image_base64(canvas[1].width,
                                                                 canvas[1].height),
                                             io)
                  IN  AfterWrites(w, "RenderFailed",
                                  IF w.ret = "Ok" THEN self.current_image_id + 1
                                  ELSE self.current_image_id,
                                  TRUE)

\* Mutant: the image id is not incremented after a transmission.
render_frame_reusing_id(self, word, anchor_position, io) ==
    IF word.chars = 0 THEN Returned("Ok", self.current_image_id, FALSE)
    ELSE IF anchor_position >= word.chars
    THEN Returned("InvalidArguments", self.current_image_id, FALSE)
    ELSE LET canvas == create_canvas(self)
         IN  IF canvas = <<>> THEN Returned("RenderFailed", self.current_image_id, FALSE)
             ELSE IF ~composite_word(self, word, anchor_position)
             THEN Returned("RenderFailed", self.current_image_id, TRUE)
             ELSE LET w == transmit_graphics(self.current_image_id,
                                             canvas[1].width, canvas[1].height,
                                             encode_image_base64(canvas[1].width,
                                                                 canvas[1].height),
                                             io)
                  IN  AfterWrites(w, "RenderFailed", self.current_image_id, TRUE)

\* KittyGraphicsRenderer::render_frame
render_frame(self, word, anchor_position, io) ==
    IF word.chars = 0 THEN Returned("Ok", self.current_image_id, FALSE)
    ELSE IF anchor_position >= word.chars
    THEN Returned("InvalidArguments", self.current_image_id, FALSE)
    ELSE LET canvas == create_canvas(self)
         IN  IF canvas = <<>> THEN Returned("RenderFailed", self.current_image_id, FALSE)
             ELSE IF ~composite_word(self, word, anchor_position)
             THEN Returned("RenderFailed", self.current_image_id, TRUE)
             ELSE LET w == transmit_graphics(self.current_image_id,
                                             canvas[1].width, canvas[1].height,
                                             encode_image_base64(canvas[1].width,
                                                                 canvas[1].height),
                                             io)
                  IN  AfterWrites(w, "RenderFailed",
                                  IF w.ret = "Ok" THEN self.current_image_id + 1
                                  ELSE self.current_image_id,
                                  TRUE)

\* rasterize_word: the size of the image of the word, or nothing
rasterize_word(self, word) ==
    IF ~self.font \/ ~self.font_metrics THEN <<>>
    ELSE IF word.width = 0 \/ glyph_height = 0 THEN <<>>
    ELSE <<[width |-> word.width, height |-> glyph_height]>>

\* RsvpRenderer::render_word for KittyGraphicsRenderer
render_word(self, word, anchor_position, io) ==
    IF word.chars = 0 THEN Returned("Ok", self.current_image_id, FALSE)
    ELSE IF anchor_position >= word.chars
    THEN Returned("InvalidArguments", self.current_image_id, FALSE)
    ELSE IF ~self.font THEN Returned("RenderFailed", self.current_image_id, FALSE)
    ELSE LET image == rasterize_word(self, word)
         IN  IF image = <<>> THEN Returned("RenderFailed", self.current_image_id, FALSE)
             ELSE LET w == transmit_graphics(self.current_image_id,
                                             image[1].width, image[1].height,
                                             encode_image_base64(image[1].width,
                                                                 image[1].height),
                                             io)
                  IN  AfterWrites(w, "RenderFailed",
                                  IF w.ret = "Ok" THEN self.current_image_id + 1
                                  ELSE self.current_image_id,
                                  TRUE)

\* Mutant: the image deleted is the next id, not the last one transmitted.
clear_next_id(self, io) ==
    IF self.current_image_id > 1
    THEN AfterWrites(delete_image(self.current_image_id, io), "ClearFailed",
                     self.current_image_id, FALSE)
    ELSE Returned("Ok", self.current_image_id, FALSE)

\* RsvpRenderer::clear for KittyGraphicsRenderer
clear(self, io) ==
    IF self.current_image_id > 1
    THEN AfterWrites(delete_image(self.current_image_id - 1, io), "ClearFailed",
                     self.current_image_id, FALSE)
    ELSE Returned("Ok", self.current_image_id, FALSE)

\* RsvpRenderer::cleanup for KittyGraphicsRenderer
cleanup(self, io) ==
    AfterWrites(delete_all_graphics(io), "CleanupFailed", self.current_image_id, FALSE)

\* RsvpRenderer::initialize for KittyGraphicsRenderer: the renderer after the
\* call, what was written and how it returned; font_loads is whether
\* get_font() yields the bundled font.
initialize(self, font_loads, io) ==
    IF ~font_loads
    THEN [self |-> [self EXCEPT !.font = FALSE], cmds |-> <<>>, ret |-> "InitializationFailed"]
    ELSE LET q == query_dimensions(io)
         IN  [self |-> [self EXCEPT !.font = TRUE, !.font_metrics = TRUE],
              cmds |-> q.cmds,
              ret  |-> IF q.ret = "Panic" THEN "Panic" ELSE "Ok"]

\* The record of a renderer call: its name and arguments, the image id and
\* the number of commands on stdout when it started, whether it made a
\* canvas, and how it returned.
RCall(op, word, anchor_position, len, id, written, canvas, ret, fault) ==
    [op |-> op, word |-> word, anchor_position |-> anchor_position, len |-> len,
     current_image_id |-> id, written |-> written, canvas |-> canvas, ret |-> ret,
     fault |-> fault]

NoCall == RCall("none", Wd(0, 0), 0, 0, 1, 0, FALSE, "Ok", "none")

\* The effect of a renderer call with outcome o on the state.
returns(op, word, anchor_position, o) ==
    /\ renderer' = [renderer EXCEPT !.current_image_id = o.current_image_id]
    /\ stdout' = stdout \o o.cmds
    /\ panicked' = (o.ret = "Panic")
    /\ rcall' = RCall(op, word, anchor_position, 0, renderer.current_image_id,
                      Len(stdout), o.canvas, o.ret, o.fault)
    /\ frames' = IF op \in {"render_frame", "render_word"} /\ o.ret = "Ok" /\ o.cmds # <<>>
                 THEN Append(frames, renderer.current_image_id)
                 ELSE frames

\* A call may write while there is room on stdout in the model, and render
\* while there is an image id left.
has_room == Len(stdout) < MaxWritten

in_bounds == renderer.current_image_id <= MaxFrames /\ has_room

call_render_frame(word, anchor_position, io) ==
    /\ ~panicked /\ pc = "renderer" /\ in_bounds
    /\ returns("render_frame", word, anchor_position,
               render_frame(renderer, word, anchor_position, io))
    /\ UNCHANGED <<text, tokens, current_index, wpm, last, pc, app, capability>>

call_render_word(word, anchor_position, io) ==
    /\ ~panicked /\ pc = "renderer" /\ in_bounds
    /\ returns("render_word", word, anchor_position,
               render_word(renderer, word, anchor_position, io))
    /\ UNCHANGED <<text, tokens, current_index, wpm, last, pc, app, capability>>

call_clear(io) ==
    /\ ~panicked /\ pc = "renderer" /\ has_room
    /\ returns("clear", Wd(0, 0), 0, clear(renderer, io))
    /\ UNCHANGED <<text, tokens, current_index, wpm, last, pc, app, capability>>

call_cleanup(io) ==
    /\ ~panicked /\ pc = "renderer" /\ has_room
    /\ returns("cleanup", Wd(0, 0), 0, cleanup(renderer, io))
    /\ UNCHANGED <<text, tokens, current_index, wpm, last, pc, app, capability>>

call_initialize(font_loads, io) ==
    /\ ~panicked /\ pc = "renderer" /\ has_room
    /\ LET r == initialize(renderer, font_loads, io)
       IN  /\ renderer' = r.self
           /\ stdout' = stdout \o r.cmds
           /\ panicked' = (r.ret = "Panic")
           /\ rcall' = RCall("initialize", Wd(0, 0), 0, 0, renderer.current_image_id,
                             Len(stdout), FALSE, r.ret,
                             IF r.ret = "Panic" THEN "write" ELSE "none")
    /\ UNCHANGED <<text, tokens, current_index, wpm, last, frames, pc, app, capability>>

\* renderer.viewport().set_dimensions(dims)
set_dimensions(dims) ==
    /\ ~panicked /\ pc = "renderer" /\ has_room
    /\ renderer' = [renderer EXCEPT !.dimensions = <<dims>>]
    /\ rcall' = RCall("set_dimensions", Wd(0, 0), 0, 0, renderer.current_image_id,
                      Len(stdout), FALSE, "Ok", "none")
    /\ UNCHANGED <<text, tokens, current_index, wpm, last, stdout, panicked,
                   frames, pc, app, capability>>

\* A call of transmit_graphics on a payload of rcall.len characters.
call_transmit_graphics(io) ==
    /\ ~panicked /\ pc = "transmit" /\ rcall.op = "payload"
    /\ LET w == transmit_graphics(renderer.current_image_id, 1, 1, rcall.len, io)
       IN  /\ stdout' = stdout \o w.cmds
           /\ panicked' = (w.ret = "Panic")
           /\ rcall' = RCall("transmit_graphics", Wd(0, 0), 0, rcall.len,
                             renderer.current_image_id, Len(stdout), FALSE, w.ret,
                             IF w.ret = "Panic" THEN "write"
                             ELSE IF w.ret = "Err" THEN "flush" ELSE "none")
    /\ UNCHANGED <<text, tokens, current_index, wpm, last, renderer,
                   frames, pc, app, capability>>

-----------------------------------------------------------------------------
(* Startup and the event loop (src/main.rs, src/ui/terminal.rs, src/app/app.rs) *)

\* App::new: the default mode, no reading state.
App_new == [mode |-> "Command", reading_state |-> FALSE]

\* The environment main reads: $TERM and $TERM_PROGRAM.
Env(term, term_program) == [TERM |-> term, TERM_PROGRAM |-> term_program]

Envs == {Env(t, p) : t \in {"xterm-kitty", "konsole", "xterm-256color"},
                     p \in {"kitty", "Apple_Terminal"}}

\* CapabilityDetector::detect_from_env: an Option
detect_from_env(env) ==
    IF env.TERM \in {"xterm-kitty", "konsole"} THEN <<"Kitty">>
    ELSE IF env.TERM_PROGRAM = "kitty" THEN <<"Kitty">>
    ELSE <<>>

\* CapabilityDetector::detect
detect(env) == IF detect_from_env(env) # <<>> THEN detect_from_env(env)[1] ELSE "None"

\* CapabilityDetector::detect_from_override: an Option
detect_from_override(force_kitty, force_tui) ==
    IF force_kitty THEN <<"Kitty">> ELSE IF force_tui THEN <<"None">> ELSE <<>>

\* main up to the construction of the TuiManager: the flags, the capability
\* (a warning on stderr when it is None), the font check, App::new.
main(force_kitty, force_tui, env, font_loads) ==
    /\ ~panicked /\ pc = "main"
    /\ IF force_kitty /\ force_tui
       THEN pc' = "exited" /\ UNCHANGED <<capability, app>>
       ELSE /\ capability' = IF detect_from_override(force_kitty, force_tui) # <<>>
                             THEN detect_from_override(force_kitty, force_tui)[1]
                             ELSE detect(env)
            /\ IF font_loads
               THEN pc' = "new" /\ app' = App_new
               ELSE pc' = "exited" /\ UNCHANGED app
    /\ UNCHANGED <<text, tokens, current_index, wpm, panicked, last,
                   renderer, stdout, rcall, frames>>

\* TuiManager::new: raw mode and the alternate screen (terminal_ok), then the
\* renderer is constructed and initialised (the font main has just loaded),
\* the geometry is queried once more, and without dimensions the reading
\* zone is left as it is.
TuiManager_new(terminal_ok, io, io_again) ==
    /\ ~panicked /\ pc = "new"
    /\ IF ~terminal_ok
       THEN pc' = "exited" /\ UNCHANGED <<renderer, stdout, rcall, panicked>>
       ELSE LET r == initialize(KittyGraphicsRenderer_new, TRUE, io)
                q == query_dimensions(io_again)
                ok == r.ret = "Ok"
            IN  /\ renderer' = r.self
                /\ stdout' = IF ok THEN stdout \o r.cmds \o q.cmds ELSE stdout \o r.cmds
                /\ panicked' = (~ok \/ q.ret = "Panic")
                /\ pc' = IF panicked' THEN pc ELSE "loop"
                /\ rcall' = RCall("initialize", Wd(0, 0), 0, 0, 1, Len(stdout), FALSE,
                                  IF ok THEN q.ret ELSE r.ret,
                                  IF panicked' THEN "write" ELSE "none")
    /\ UNCHANGED <<text, tokens, current_index, wpm, last, frames, app, capability>>

\* A step of the event loop: the cursor and the mode it started from,
\* whether it called the renderer, and whether the loop goes on after it.
LoopStep(op, called, ret) ==
    [op |-> op, idx |-> current_index, w |-> wpm, len |-> Len(tokens),
     mode |-> app.mode, called |-> called, ret |-> ret]

\* The poll half of an iteration: the timeout given to event::poll and the
\* event it returned ("quit" and 0 when the check for Quit returned first).
Polled(kind, key, timeout) == [op |-> "poll", kind |-> kind, key |-> key, timeout |-> timeout]

\* The documents a load command can bring in, as the tokens of their text.
Documents ==
    {<<>>,
     <<Token(<<"D", "r">>, <<".">>, TRUE), Token(<<"r">>, <<>>, FALSE)>>,
     <<Token(<<"r">>, <<>>, TRUE), Token(<<>>, <<"\n">>, FALSE), Token(<<"D">>, <<"!">>, FALSE)>>}

Keys == {"j", "k", "[", "]", " ", "q", "x"}

\* A key event, a timeout or a failure of event::poll / event::read.  An
\* "enter" event carries the command the command buffer parses to.
Event(kind, key, command, document) ==
    [kind |-> kind, key |-> key, command |-> command, document |-> document]

Events ==
    {Event(kind, "", "", <<>>) : kind \in {"timeout", "error", "ctrl_c", "esc", "other"}}
    \cup {Event("char", key, "", <<>>) : key \in Keys}
    \cup {Event("enter", "", command, <<>>) : command \in {"Quit", "Help", "Unknown", "LoadFailed"}}
    \cup {Event("enter", "", "Load", document) : document \in Documents}

\* The cursor and the mode as one value.
Session(m, rs, toks, idx, w) ==
    [mode |-> m, reading_state |-> rs, tokens |-> toks, current_index |-> idx, wpm |-> w]

Current == Session(app.mode, app.reading_state, tokens, current_index, wpm)

\* App::start_reading / apply_loaded_document
start_reading(toks, w) == Session("Reading", TRUE, toks, 0, w)

\* App::toggle_pause
toggle_pause(m) == IF m = "Reading" THEN "Paused" ELSE IF m = "Paused" THEN "Reading" ELSE m

\* App::handle_keypress
handle_keypress(s, key) ==
    IF s.mode \notin {"Reading", "Paused"} \/ ~s.reading_state THEN s
    ELSE IF key \in {"j", "J"}
    THEN LET index == find_next_sentence_start(s.tokens, s.current_index)
         IN  [s EXCEPT !.current_index = IF index = None THEN @ ELSE index]
    ELSE IF key \in {"k", "K"}
    THEN LET index == find_previous_sentence_start(s.tokens, s.current_index)
         IN  [s EXCEPT !.current_index = IF index = None THEN @ ELSE index]
    ELSE IF key = "[" THEN [s EXCEPT !.wpm = clamp_wpm(I32WrappingAdd(@, -50))]
    ELSE IF key = "]" THEN [s EXCEPT !.wpm = clamp_wpm(I32WrappingAdd(@, 50))]
    ELSE IF key = " " THEN [s EXCEPT !.mode = toggle_pause(@)]
    ELSE IF key \in {"q", "Q"} THEN [s EXCEPT !.mode = "Repl"]
    ELSE s

\* App::get_wpm
get_wpm(s) == IF s.reading_state THEN s.wpm ELSE 300

\* Mutant: the automatic advance does nothing.
advance_reading_stalled(s) == s

\* App::advance_reading
advance_reading(s) ==
    IF s.reading_state
    THEN [s EXCEPT !.current_index = advance_index(s.tokens, s.current_index)]
    ELSE s

\* Mutant: a timeout advances the cursor in every mode.
handle_event_advancing_always(s, event) ==
    CASE event.kind = "timeout" ->
             [session |-> advance_reading(s),
              returns |-> FALSE]
      [] event.kind = "error" -> [session |-> s, returns |-> TRUE]
      [] event.kind = "ctrl_c" -> [session |-> [s EXCEPT !.mode = "Quit"], returns |-> TRUE]
      [] event.kind = "char" ->
             [session |-> IF s.mode = "Command" THEN s ELSE handle_keypress(s, event.key),
              returns |-> FALSE]
      [] event.kind = "enter" ->
             IF s.mode # "Command" THEN [session |-> s, returns |-> FALSE]
             ELSE IF event.command = "Load"
             THEN [session |-> start_reading(event.document, 300), returns |-> FALSE]
             ELSE IF event.command = "Quit"
             THEN [session |-> [s EXCEPT !.mode = "Quit"], returns |-> TRUE]
             ELSE [session |-> s, returns |-> FALSE]
      [] event.kind = "esc" ->
             [session |-> IF s.mode \in {"Reading", "Paused"}
                          THEN [s EXCEPT !.mode = "Command"] ELSE s,
              returns |-> FALSE]
      [] OTHER -> [session |-> s, returns |-> FALSE]

\* Mutant: Ctrl+C and the quit command set the mode and the loop goes on.
handle_event_quit_deferred(s, event) ==
    CASE event.kind = "timeout" ->
             [session |-> IF s.mode = "Reading" THEN advance_reading(s) ELSE s,
              returns |-> FALSE]
      [] event.kind = "error" -> [session |-> s, returns |-> TRUE]
      [] event.kind = "ctrl_c" -> [session |-> [s EXCEPT !.mode = "Quit"], returns |-> FALSE]
      [] event.kind = "char" ->
             [session |-> IF s.mode = "Command" THEN s ELSE handle_keypress(s, event.key),
              returns |-> FALSE]
      [] event.kind = "enter" ->
             IF s.mode # "Command" THEN [session |-> s, returns |-> FALSE]
             ELSE IF event.command = "Load"
             THEN [session |-> start_reading(event.document, 300), returns |-> FALSE]
             ELSE IF event.command = "Quit"
             THEN [session |-> [s EXCEPT !.mode = "Quit"], returns |-> FALSE]
             ELSE [session |-> s, returns |-> FALSE]
      [] event.kind = "esc" ->
             [session |-> IF s.mode \in {"Reading", "Paused"}
                          THEN [s EXCEPT !.mode = "Command"] ELSE s,
              returns |-> FALSE]
      [] OTHER -> [session |-> s, returns |-> FALSE]

\* The match on event::poll in run_event_loop: the session after the event,
\* and whether the loop returns.
handle_event(s, event) ==
    CASE event.kind = "timeout" ->
             [session |-> IF s.mode = "Reading" THEN advance_reading(s) ELSE s,
              returns |-> FALSE]
      [] event.kind = "error" -> [session |-> s, returns |-> TRUE]
      [] event.kind = "ctrl_c" -> [session |-> [s EXCEPT !.mode = "Quit"], returns |-> TRUE]
      [] event.kind = "char" ->
             [session |-> IF s.mode = "Command" THEN s ELSE handle_keypress(s, event.key),
              returns |-> FALSE]
      [] event.kind = "enter" ->
             IF s.mode # "Command" THEN [session |-> s, returns |-> FALSE]
             ELSE IF event.command = "Load"
             THEN [session |-> start_reading(event.document, 300), returns |-> FALSE]
             ELSE IF event.command = "Quit"
             THEN [session |-> [s EXCEPT !.mode = "Quit"], returns |-> TRUE]
             ELSE [session |-> s, returns |-> FALSE]
      [] event.kind = "esc" ->
             [session |-> IF s.mode \in {"Reading", "Paused"}
                          THEN [s EXCEPT !.mode = "Command"] ELSE s,
              returns |-> FALSE]
      [] OTHER -> [session |-> s, returns |-> FALSE]

\* The first half of an iteration of run_event_loop: the check for Quit,
\* the poll and the handling of what it returned.
poll(event) ==
    /\ ~panicked /\ pc = "loop"
    /\ IF app.mode = "Quit"
       THEN /\ pc' = "drop"
            /\ last' = Polled("quit", "", 0)
            /\ UNCHANGED <<tokens, current_index, wpm, app>>
       ELSE LET h == handle_event(Current, event)
            IN  /\ tokens' = h.session.tokens
                /\ current_index' = h.session.current_index
                /\ wpm' = h.session.wpm
                /\ app' = [mode |-> h.session.mode, reading_state |-> h.session.reading_state]
                /\ pc' = IF h.returns THEN "drop" ELSE "render"
                /\ last' = Polled(event.kind, event.key, wpm_to_milliseconds(get_wpm(Current)))
    /\ UNCHANGED <<text, panicked, renderer, stdout, rcall, frames, capability>>

\* The characters of the words given to calculate_anchor_position: an ASCII
\* letter, and U+00E9, which takes two bytes in UTF-8.
OvpChars == {"r", "U+00E9"}

len_utf8(c) == IF c = "U+00E9" THEN 2 ELSE 1

\* Mutant: word.len(), the number of bytes.
RECURSIVE chars_count_as_bytes(_)
chars_count_as_bytes(word) ==
    IF word = <<>> THEN 0 ELSE len_utf8(Head(word)) + chars_count_as_bytes(Tail(word))

\* word.chars().count()
chars_count(word) == Len(word)

\* Mutant: the anchor is the one-based position of the letter.
calculate_anchor_position_one_based(len) ==
    IF len <= 1 THEN 1 ELSE IF len <= 5 THEN 2 ELSE IF len <= 9 THEN 3 ELSE 4

\* calculate_anchor_position (src/engine/ovp.rs)
calculate_anchor_position(len) ==
    IF len <= 1 THEN 0 ELSE IF len <= 5 THEN 1 ELSE IF len <= 9 THEN 2 ELSE 3

\* The word of a token as the renderer sees it: 14.4 px per character.
word_of(token) == Wd(Len(token.text), (144 * Len(token.text) + 9) \div 10)

\* App::get_render_state panics when a slice bound is out of range:
\* tokens[current_index + 1..min(current_index + 4, len)]
get_render_state_panics(s) ==
    s.reading_state /\ s.current_index + 1 > Min({s.current_index + 4, Len(s.tokens)})

\* RenderState.current_word: an Option
current_word(s) ==
    IF s.reading_state /\ s.current_index < Len(s.tokens)
    THEN <<word_of(s.tokens[s.current_index + 1])>>
    ELSE <<>>

\* Mutant: a render error ends the loop (`?` instead of `if let Err`).
TuiManager_render_frame_fatal(io, draw_ok) ==
    IF get_render_state_panics(Current)
    THEN /\ panicked' = TRUE
         /\ pc' = pc
         /\ last' = LoopStep("render_tick", FALSE, FALSE)
         /\ UNCHANGED <<renderer, stdout, rcall, frames>>
    ELSE IF current_word(Current) = <<>>
    THEN /\ pc' = IF draw_ok THEN "loop" ELSE "drop"
         /\ last' = LoopStep("render_tick", FALSE, draw_ok)
         /\ UNCHANGED <<renderer, stdout, rcall, frames, panicked>>
    ELSE LET word == current_word(Current)[1]
             anchor_pos == calculate_anchor_position(word.chars)
             o == render_frame(renderer, word, anchor_pos, io)
         IN  /\ returns("render_frame", word, anchor_pos, o)
             /\ pc' = IF o.ret = "Panic" THEN pc
                      ELSE IF draw_ok /\ o.ret = "Ok" THEN "loop" ELSE "drop"
             /\ last' = LoopStep("render_tick", TRUE, draw_ok)

\* TuiManager::render_frame: the render state, the frame of the current
\* word (an error is reported on stderr and dropped), then the Ratatui draw.
TuiManager_render_frame(io, draw_ok) ==
    IF get_render_state_panics(Current)
    THEN /\ panicked' = TRUE
         /\ pc' = pc
         /\ last' = LoopStep("render_tick", FALSE, FALSE)
         /\ UNCHANGED <<renderer, stdout, rcall, frames>>
    ELSE IF current_word(Current) = <<>>
    THEN /\ pc' = IF draw_ok THEN "loop" ELSE "drop"
         /\ last' = LoopStep("render_tick", FALSE, draw_ok)
         /\ UNCHANGED <<renderer, stdout, rcall, frames, panicked>>
    ELSE LET word == current_word(Current)[1]
             anchor_pos == calculate_anchor_position(word.chars)
             o == render_frame(renderer, word, anchor_pos, io)
         IN  /\ returns("render_frame", word, anchor_pos, o)
             /\ pc' = IF o.ret = "Panic" THEN pc ELSE IF draw_ok THEN "loop" ELSE "drop"
             /\ last' = LoopStep("render_tick", TRUE, draw_ok)

\* The second half of an iteration of run_event_loop: a frame is rendered
\* when a render tick (1000 / 60 ms) has elapsed since the last one.
render_tick(elapsed, io, draw_ok) ==
    /\ ~panicked /\ pc = "render"
    /\ IF elapsed
       THEN TuiManager_render_frame(io, draw_ok)
       ELSE /\ pc' = "loop"
            /\ last' = LoopStep("render_skipped", FALSE, TRUE)
            /\ UNCHANGED <<renderer, stdout, rcall, frames, panicked>>
    /\ UNCHANGED <<text, tokens, current_index, wpm, app, capability>>

\* Drop for TuiManager, when run_event_loop has returned: cleanup, whose
\* error is ignored.
TuiManager_drop(io) ==
    /\ ~panicked /\ pc \in {"drop", "renderer"}
    /\ returns("drop", Wd(0, 0), 0, cleanup(renderer, io))
    /\ pc' = IF panicked' THEN pc ELSE IF pc = "drop" THEN "exited" ELSE "dropped"
    /\ UNCHANGED <<text, tokens, current_index, wpm, last, app, capability>>

\* Outside the renderer's specifications the renderer is freshly constructed
\* and idle.
NoRenderer(at) ==
    /\ renderer = KittyGraphicsRenderer_new
    /\ stdout = <<>>
    /\ rcall = NoCall
    /\ frames = <<>>
    /\ pc = at
    /\ app = App_new
    /\ capability = "Kitty"

-----------------------------------------------------------------------------
(* The reading cursor under any sequence of calls *)

Init ==
    /\ text = <<>>
    /\ NoRenderer("cursor")
    /\ \E toks \in SeqsUpTo(NavTokens, MaxTokens), w \in InitWpms : new(toks, w)

Next ==
    \/ advance
    \/ jump_to_next_sentence
    \/ jump_to_previous_sentence
    \/ \E delta \in Deltas : adjust_wpm(delta)

Spec == Init /\ [][Next]_vars

\* The cursor with its getters called as well.
NextCursor ==
    \/ Next
    \/ current_token_duration

SpecCursor == Init /\ [][NextCursor]_vars

-----------------------------------------------------------------------------
(* The duration of one token at every speed *)

InitDur ==
    /\ text = <<>>
    /\ NoRenderer("cursor")
    /\ \E toks \in {<<>>} \cup {<<t>> : t \in DurTokens}, w \in 0..MaxDurWpm : new(toks, w)

NextDur ==
    \/ current_token_duration
    \/ word_delay

SpecDur == InitDur /\ [][NextDur]_vars

-----------------------------------------------------------------------------
(* The base delay at every speed up to MaxWpm *)

\* A call of the free function wpm_to_milliseconds.
call_wpm_to_milliseconds ==
    /\ ~panicked
    /\ last' = Call("wpm_to_milliseconds", current_index, wpm, 0, FALSE, wpm_to_milliseconds(wpm))
    /\ UNCHANGED <<text, tokens, current_index, wpm, panicked>>
    /\ UNCHANGED rvars

InitWpm ==
    /\ text = <<>>
    /\ NoRenderer("cursor")
    /\ \E w \in 0..MaxWpm : new(<<>>, w)

NextWpm == call_wpm_to_milliseconds

SpecWpm == InitWpm /\ [][NextWpm]_vars

-----------------------------------------------------------------------------
(* The anchor of every word up to MaxWordLen characters *)

\* A call of calculate_anchor_position on the word held in text.
call_calculate_anchor_position ==
    /\ ~panicked
    /\ last' = Call("calculate_anchor_position", current_index, wpm, 0, FALSE,
                    calculate_anchor_position(chars_count(text)))
    /\ UNCHANGED <<text, tokens, current_index, wpm, panicked>>
    /\ UNCHANGED rvars

InitOvp ==
    /\ \E n \in 0..MaxWordLen : text \in [1..n -> OvpChars]
    /\ new(<<>>, 300)
    /\ NoRenderer("cursor")

NextOvp == call_calculate_anchor_position

SpecOvp == InitOvp /\ [][NextOvp]_vars

-----------------------------------------------------------------------------
(* The tokenizer on every text up to MaxTextLen characters *)

InitTok ==
    /\ \E n \in 0..MaxTextLen : text \in [1..n -> Chars]
    /\ tokens = <<>>
    /\ current_index = 0
    /\ wpm = 300
    /\ panicked = FALSE
    /\ last = Call("text", 0, 300, 0, FALSE, 0)
    /\ NoRenderer("cursor")

NextTok == tokenize

SpecTok == InitTok /\ [][NextTok]_vars

-----------------------------------------------------------------------------
(* The renderer under any sequence of calls of its public methods *)

Anchors == {0, 1, 5}

\* The cursor of the session the frames are rendered for.
SessionTokens == <<Token(<<"D", "r">>, <<".">>, TRUE), Token(<<"r">>, <<>>, FALSE)>>

\* A renderer of its own, as a test constructs it.
InitRenderer ==
    /\ text = <<>>
    /\ new(SessionTokens, 300)
    /\ NoRenderer("renderer")

\* The process before main runs.
InitMain ==
    /\ text = <<>>
    /\ new(<<>>, 300)
    /\ NoRenderer("main")

\* Failures of the first two writes of a call: of a single command, of the
\* first chunk, and of a chunk after one that was sent.
KittyIo == IoPlans(2)

NextKitty ==
    \/ \E font_loads \in BOOLEAN, io \in KittyIo : call_initialize(font_loads, io)
    \/ \E dims \in DimsSet : set_dimensions(dims)
    \/ \E word \in Words, anchor_position \in Anchors, io \in KittyIo :
           call_render_frame(word, anchor_position, io)
    \/ \E word \in Words, anchor_position \in Anchors, io \in KittyIo :
           call_render_word(word, anchor_position, io)
    \/ \E io \in KittyIo : call_clear(io)
    \/ \E io \in KittyIo : call_cleanup(io)
    \/ \E io \in KittyIo : TuiManager_drop(io)

SpecKitty == InitRenderer /\ [][NextKitty]_vars

-----------------------------------------------------------------------------
(* The application from startup to shutdown *)

NextApp ==
    \/ \E force_kitty \in BOOLEAN, force_tui \in BOOLEAN, env \in Envs, font_loads \in BOOLEAN :
           main(force_kitty, force_tui, env, font_loads)
    \/ \E terminal_ok \in BOOLEAN, io \in KittyIo, io_again \in KittyIo :
           TuiManager_new(terminal_ok, io, io_again)
    \/ \E event \in Events : poll(event)
    \/ \E elapsed \in BOOLEAN, io \in KittyIo, draw_ok \in BOOLEAN :
           render_tick(elapsed, io, draw_ok)
    \/ \E io \in KittyIo : TuiManager_drop(io)

SpecApp == InitMain /\ [][NextApp]_vars

-----------------------------------------------------------------------------
(* A reading session left to itself: no key is pressed, no I/O fails *)

\* The loop after a document of at least one token has been loaded: the
\* renderer as TuiManager::new leaves it, the mode Reading, the cursor at the
\* first token, the render of the iteration still to come.
InitReading ==
    /\ text = <<>>
    /\ \E toks \in SeqsUpTo(NavTokens, MaxTokens) \ {<<>>} : new(toks, 300)
    /\ renderer = initialize(KittyGraphicsRenderer_new, TRUE, NoFailure).self
    /\ stdout = query_dimensions(NoFailure).cmds \o query_dimensions(NoFailure).cmds
    /\ rcall = RCall("initialize", Wd(0, 0), 0, 0, 1, 0, FALSE, "Err", "none")
    /\ frames = <<>>
    /\ pc = "render"
    /\ app = [mode |-> "Reading", reading_state |-> TRUE]
    /\ capability = "Kitty"

Timeout == Event("timeout", "", "", <<>>)

NextReading ==
    \/ poll(Timeout)
    \/ \E elapsed \in BOOLEAN : render_tick(elapsed, NoFailure, TRUE)

\* The loop is sequential code that goes on running: each half of an
\* iteration is taken when it is its turn.
SpecReading ==
    /\ InitReading
    /\ [][NextReading]_vars
    /\ WF_vars(poll(Timeout))
    /\ WF_vars(\E elapsed \in BOOLEAN : render_tick(elapsed, NoFailure, TRUE))

-----------------------------------------------------------------------------
(* The renderer on its own and in the application *)

InitRender == InitRenderer \/ InitMain

NextRender == NextKitty \/ NextApp

SpecRender == InitRender /\ [][NextRender]_vars

-----------------------------------------------------------------------------
(* transmit_graphics on every payload length up to MaxPayload *)

InitTx ==
    /\ text = <<>>
    /\ new(SessionTokens, 300)
    /\ renderer = KittyGraphicsRenderer_new
    /\ stdout = <<>>
    /\ \E len \in 0..MaxPayload :
           rcall = RCall("payload", Wd(0, 0), 0, len, 1, 0, FALSE, "Ok", "none")
    /\ frames = <<>>
    /\ pc = "transmit"
    /\ app = App_new
    /\ capability = "Kitty"

NextTx == \E io \in IoPlans(MaxChunks) : call_transmit_graphics(io)

SpecTx == InitTx /\ [][NextTx]_vars

-----------------------------------------------------------------------------
(* Properties of the reading cursor *)

LastIndex == Len(tokens) - 1

SentenceStartsIn(lo, hi) == {j \in lo..hi : tokens[j + 1].is_sentence_start}

\* The exact clamp of w + delta to the configured bounds, for any i32 delta.
ExactClampedSum(w, delta) ==
    IF delta > wpm_range_end - w THEN wpm_range_end
    ELSE IF delta < wpm_range_start - w THEN wpm_range_start
    ELSE w + delta

\* C1: whatever calls were made, current_index is a valid index of a
\* non-empty token sequence and is 0 for an empty one.
C1_IndexInBounds ==
    IF Len(tokens) = 0 THEN current_index = 0
    ELSE 0 <= current_index /\ current_index < Len(tokens)

C1_Witness ==
    /\ Len(tokens) >= 2
    /\ last.op = "advance"
    /\ last.idx = LastIndex
    /\ current_index = LastIndex

\* C2: jump_to_next_sentence from index i lands on the smallest j > i that is
\* a sentence start and returns true; with no such j it returns false and the
\* index stays i.
C2_JumpNext ==
    last.op = "jump_to_next_sentence" =>
        LET S == SentenceStartsIn(last.idx + 1, LastIndex)
        IN  IF S = {} THEN ~last.ret /\ current_index = last.idx
            ELSE last.ret /\ current_index = Min(S)

C2_Witness ==
    /\ last.op = "jump_to_next_sentence"
    /\ last.ret
    /\ current_index > last.idx + 1
    /\ SentenceStartsIn(current_index + 1, LastIndex) # {}

\* C3: jump_to_previous_sentence from index i lands on the largest j < i that
\* is a sentence start and returns true; with no such j it returns false and
\* the index stays i.
C3_JumpPrevious ==
    last.op = "jump_to_previous_sentence" =>
        LET S == SentenceStartsIn(0, last.idx - 1)
        IN  IF S = {} THEN ~last.ret /\ current_index = last.idx
            ELSE last.ret /\ current_index = Max(S)

C3_Witness ==
    /\ last.op = "jump_to_previous_sentence"
    /\ last.ret
    /\ current_index < last.idx - 1
    /\ SentenceStartsIn(0, current_index - 1) # {}

\* C4: advance adds exactly 1 to an index below the last index and leaves the
\* index alone at the last index or on an empty sequence; the index never
\* passes the last token.
C4_Advance ==
    last.op = "advance" =>
        /\ current_index = IF last.idx < LastIndex THEN last.idx + 1 ELSE last.idx
        /\ current_index <= IF Len(tokens) = 0 THEN 0 ELSE LastIndex

C4_Witness ==
    /\ last.op = "advance"
    /\ Len(tokens) >= 3
    /\ last.idx = LastIndex - 1
    /\ current_index = LastIndex

\* C5: adjust_wpm(delta) leaves wpm at clamp(wpm + delta, min, max), the sum
\* being the exact one.
C5_AdjustWpmClamps ==
    last.op = "adjust_wpm" =>
        /\ ~panicked
        /\ wpm = ExactClampedSum(last.w, last.delta)

\* C6: in every state of a cursor, construction included, wpm lies within the
\* configured bounds.
C6_WpmWithinBounds ==
    wpm_range_start <= wpm /\ wpm <= wpm_range_end

-----------------------------------------------------------------------------
(* Properties of the timing model *)

CurrentMarks == tokens[last.idx + 1].punctuation

MarkFactors(marks) == {config_multiplier(marks[i]) : i \in 1..Len(marks)}

\* C7: current_token_duration is the product of the base delay, the
\* punctuation multiplier and the length penalty rounded to the nearest
\* integer (halves away from zero, not truncated), and so equals
\* calculate_word_delay on the same token and wpm.
C7_DurationIsRounded ==
    (last.op = "current_token_duration" /\ last.idx < Len(tokens)) =>
        LET token == tokens[last.idx + 1]
            penalty == IF Len(token.text) > long_word_threshold
                       THEN long_word_penalty ELSE One
        IN  /\ last.dur = f64_round(f64_product(wpm_to_milliseconds(wpm), last.mult, penalty))
            /\ last.dur = calculate_word_delay(token.text, token.punctuation, wpm)

\* C8: the punctuation multiplier behind a token's duration is the largest
\* factor among its marks (1.0 without marks), not their sum or product;
\* the marks '.', '!' together give 3.0.
C8_MaxStacking ==
    (last.op = "current_token_duration" /\ last.idx < Len(tokens)) =>
        LET F == MarkFactors(CurrentMarks)
            largest == IF F = {} THEN One ELSE Max(F)
        IN  /\ last.mult = largest
            /\ last.dur = as_u64(f64_product(wpm_to_milliseconds(wpm), largest,
                                             length_penalty(tokens[last.idx + 1])))
            /\ CurrentMarks = <<".", "!">> => last.mult = 3 * One

C8_Witness ==
    /\ last.op = "current_token_duration"
    /\ last.idx < Len(tokens)
    /\ CurrentMarks = <<".", "!">>
    /\ last.mult = 3 * One
    /\ wpm = 300
    /\ last.dur = 600

-----------------------------------------------------------------------------
(* Properties of the tokenizer *)

Terminators == {".", "?", "!"}

TrailingMarks == {".", ",", "?", "!"}

\* The word a token was made from; the synthetic newline token has none.
WordOf(t) == IF is_newline_token(t) THEN <<>> ELSE t.text \o t.punctuation

\* digits, one '.', digits
DigitsDotDigits(w) ==
    \E k \in 2..(Len(w) - 1) :
        /\ w[k] = "."
        /\ \A i \in 1..Len(w) : i # k => w[i] \in Digits

\* The sentence-start rule for the token after prev, made from word.
StartsSentenceAfter(prev, word) ==
    LET full == prev.text \o prev.punctuation
    IN  \/ contains(prev.punctuation, "\n")
        \/ /\ full # <<>>
           /\ Last(full) \in Terminators
           /\ word # <<>>
           /\ Head(word) \in Upper
           /\ full \notin ABBREVIATIONS
           /\ ~DigitsDotDigits(full)

\* C9: in the output of tokenize_text the first token is a sentence start, and
\* a later token is one exactly when the previous token carries a newline, or
\* the previous token ends in . ? or ! and the word starts with an ASCII
\* capital and the previous token is neither an abbreviation nor a decimal.
C9_SentenceStarts ==
    last.op = "tokenize_text" =>
        \A i \in 1..Len(tokens) :
            tokens[i].is_sentence_start =
                (IF i = 1 THEN TRUE ELSE StartsSentenceAfter(tokens[i - 1], WordOf(tokens[i])))

\* The whitespace-delimited words of the text, as index pairs <<first, last>>.
WordSpans ==
    {sp \in (1..Len(text)) \X (1..Len(text)) :
        /\ sp[1] <= sp[2]
        /\ \A k \in sp[1]..sp[2] : ~is_whitespace(text[k])
        /\ sp[1] = 1 \/ is_whitespace(text[sp[1] - 1])
        /\ sp[2] = Len(text) \/ is_whitespace(text[sp[2] + 1])}

IsWordToken(t) == ~is_newline_token(t)

WordTokens == SelectSeq(tokens, IsWordToken)

\* C10: every whitespace-delimited word yields, in order, a token whose
\* punctuation is the word's maximal trailing run of . , ? ! in the original
\* order and whose text is the rest, so that text followed by punctuation is
\* the word; every punctuation entry of every token is one of . , ? ! newline.
C10_TrailingPunctuation ==
    last.op = "tokenize_text" =>
        /\ Len(WordTokens) = Cardinality(WordSpans)
        /\ \A sp \in WordSpans :
               LET k == 1 + Cardinality({other \in WordSpans : other[1] < sp[1]})
                   t == WordTokens[k]
               IN  /\ t.text \o t.punctuation = SubSeq(text, sp[1], sp[2])
                   /\ \A i \in 1..Len(t.punctuation) : t.punctuation[i] \in TrailingMarks
                   /\ t.text = <<>> \/ Last(t.text) \notin TrailingMarks
        /\ \A i \in 1..Len(tokens) : \A j \in 1..Len(tokens[i].punctuation) :
               tokens[i].punctuation[j] \in TrailingMarks \cup {"\n"}

C10_Witness ==
    /\ last.op = "tokenize_text"
    /\ text = <<"r", "?", "!">>
    /\ tokens = <<Token(<<"r">>, <<"?", "!">>, TRUE)>>

\* C11: the last token returned by tokenize_text is never a synthetic newline
\* token (empty text, punctuation [newline]), also for a text that ends in
\* one or more blank lines.
C11_NoTrailingNewline ==
    last.op = "tokenize_text" =>
        tokens = <<>> \/ ~is_newline_token(Last(tokens))

-----------------------------------------------------------------------------
(* Properties of the renderer *)

\* What the last renderer call wrote to stdout.
NewCmds == SubSeq(stdout, rcall.written + 1, Len(stdout))

Renders == {"render_frame", "render_word"}

\* C12: a render_frame or render_word whose anchor_position is at or beyond
\* the character count of a non-empty word returns InvalidArguments before a
\* canvas is made: nothing is written, current_image_id is unchanged, the
\* index is not clamped to let the frame through.
C12_InvalidAnchorRejected ==
    (rcall.op \in Renders /\ rcall.word.chars > 0
        /\ rcall.anchor_position >= rcall.word.chars) =>
        /\ rcall.ret = "InvalidArguments"
        /\ ~rcall.canvas
        /\ NewCmds = <<>>
        /\ renderer.current_image_id = rcall.current_image_id
        /\ ~panicked

C12_Witness ==
    /\ rcall.op = "render_frame"
    /\ rcall.word = Wd(1, 15) /\ rcall.anchor_position = 1
    /\ renderer.font /\ renderer.dimensions # <<>>
    /\ frames = <<1>>
    /\ rcall.ret = "InvalidArguments"

\* C13: the image ids of the successfully transmitted frames are 1, 2, 3, ...
\* in order, the next id is one more than the number of such frames, every
\* command of a frame carries the frame's id, and a render that fails or is
\* skipped leaves current_image_id unchanged.
C13_ImageIdsIncrease ==
    /\ \A k \in 1..Len(frames) : frames[k] = k
    /\ renderer.current_image_id = Len(frames) + 1
    /\ rcall.op \in Renders =>
           /\ \A k \in 1..Len(NewCmds) : NewCmds[k].i = rcall.current_image_id
           /\ IF rcall.ret = "Ok" /\ rcall.word.chars > 0
              THEN /\ renderer.current_image_id = rcall.current_image_id + 1
                   /\ NewCmds # <<>>
              ELSE renderer.current_image_id = rcall.current_image_id

C13_Witness ==
    /\ rcall.op = "render_frame" /\ rcall.ret = "Ok"
    /\ frames = <<1, 2>>
    /\ renderer.current_image_id = 3
    /\ Len(stdout) > 2

\* The least number of chunks of at most chunk_size characters that hold len.
CeilChunks(len) == CHOOSE n \in 0..(len + 1) : n * chunk_size >= len /\ (n - 1) * chunk_size < len

\* C14: transmit_graphics sends a payload of L <= 4096 characters as one
\* command with m=0, and a longer one as ceil(L / 4096) commands in payload
\* order, each of at most 4096 characters, with m=1 on all but the last and
\* m=0 on the last; the chunks put together are the payload.
C14_Chunking ==
    (rcall.op = "transmit_graphics" /\ rcall.ret = "Ok") =>
        LET L == rcall.len
            n == Len(stdout)
        IN  /\ n = IF L <= 4096 THEN 1 ELSE CeilChunks(L)
            /\ \A k \in 1..n :
                   /\ stdout[k].a = "T"
                   /\ stdout[k].i = rcall.current_image_id
                   /\ stdout[k].len <= 4096
                   /\ stdout[k].m = IF k = n THEN 0 ELSE 1
                   /\ stdout[k].off = IF k = 1 THEN 0 ELSE stdout[k - 1].off + stdout[k - 1].len
            /\ stdout[n].off + stdout[n].len = L

C14_Witness ==
    /\ rcall.op = "transmit_graphics" /\ rcall.ret = "Ok"
    /\ rcall.len = 8193
    /\ Len(stdout) = 3
    /\ stdout[3].len = 1 /\ stdout[3].m = 0 /\ stdout[2].m = 1

\* The images the terminal shows: transmitted to the end (a command with
\* m=0) and not deleted since, by id or with all others.
Displayed ==
    {i \in 1..(MaxFrames + 1) :
        \E k \in 1..Len(stdout) :
            /\ stdout[k].a = "T" /\ stdout[k].m = 0 /\ stdout[k].i = i
            /\ \A j \in (k + 1)..Len(stdout) :
                   ~(stdout[j].a = "d" /\ (stdout[j].d = "A" \/ stdout[j].i = i))}

\* C15: each transmitted frame replaces the previous one: when render_frame
\* has transmitted the frame with id k+1 the image with id k has been
\* deleted, so the new frame is the one transmitted image the terminal has
\* not been told to delete.
C15_FrameReplacesPrevious ==
    (rcall.op = "render_frame" /\ rcall.ret = "Ok" /\ NewCmds # <<>>) =>
        Displayed = {rcall.current_image_id}

DeleteOf(i) == Cmd("d", "I", i, 0, 0, 0, 0, 0)

DeleteAll == Cmd("d", "A", 0, 0, 0, 0, 0, 0)

\* C16: clear() writes a delete command for one image id, current_image_id - 1,
\* the most recently transmitted frame, and none when no frame has been
\* transmitted; a delete-all command is written only by cleanup(), which the
\* drop of the TuiManager runs.
C16_ClearDeletesLast ==
    /\ rcall.op = "clear" =>
           IF frames = <<>> THEN NewCmds = <<>> /\ rcall.ret = "Ok"
           ELSE /\ rcall.current_image_id - 1 = frames[Len(frames)]
                /\ IF rcall.fault = "write" THEN NewCmds = <<>>
                   ELSE NewCmds = <<DeleteOf(frames[Len(frames)])>>
    /\ rcall.op \notin {"cleanup", "drop"} =>
           \A k \in 1..Len(NewCmds) : NewCmds[k] # DeleteAll
    /\ (rcall.op \in {"cleanup", "drop"} /\ rcall.fault # "write") => NewCmds = <<DeleteAll>>
    /\ pc \in {"dropped", "exited"} /\ rcall.op = "drop" => stdout[Len(stdout)] = DeleteAll

C16_Witness ==
    /\ rcall.op = "clear" /\ rcall.ret = "Ok"
    /\ frames = <<1>>
    /\ renderer.current_image_id = 2
    /\ NewCmds = <<DeleteOf(1)>>

\* C18: a write or flush failure while render_frame transmits a frame is
\* returned as an error, not a crash; the chunks after the failed one are not
\* sent, current_image_id is not advanced, and the cursor's tokens,
\* current_index and wpm are unchanged.
C18_TransmissionFailureReturned ==
    (rcall.op = "render_frame" /\ rcall.fault # "none") =>
        /\ rcall.ret = "RenderFailed"
        /\ ~panicked
        /\ \A k \in 1..Len(NewCmds) : NewCmds[k].m = 1 \/ Len(NewCmds) = 1
        /\ renderer.current_image_id = rcall.current_image_id
        /\ tokens = SessionTokens /\ current_index = 0 /\ wpm = 300

\* C17: render_frame on a non-empty word with a valid anchor, when the font,
\* its metrics or the dimensions of the viewport are missing, returns
\* RenderFailed, writes nothing and leaves current_image_id as it was; in
\* the event loop such a failure does not end the loop and changes neither
\* the cursor nor the mode, and every elapsed render tick with a current
\* word calls the renderer again, whatever the earlier ticks returned.
C17_ResourceFailureNotFatal ==
    /\ (rcall.op = "render_frame" /\ rcall.word.chars > 0
           /\ rcall.anchor_position < rcall.word.chars
           /\ (~renderer.font \/ ~renderer.font_metrics \/ renderer.dimensions = <<>>)) =>
           /\ rcall.ret = "RenderFailed"
           /\ NewCmds = <<>>
           /\ renderer.current_image_id = rcall.current_image_id
    /\ (last.op = "render_tick" /\ last.called /\ last.ret /\ rcall.ret = "RenderFailed") =>
           /\ pc = "loop" /\ ~panicked
           /\ current_index = last.idx /\ wpm = last.w
           /\ Len(tokens) = last.len /\ app.mode = last.mode
    /\ (last.op = "render_tick" /\ ~panicked /\ pc \in {"loop", "drop"}
           /\ current_word(Current) # <<>>) =>
           last.called /\ rcall.op = "render_frame"

C17_Witness ==
    /\ pc = "loop" /\ last.op = "render_tick" /\ last.called
    /\ rcall.op = "render_frame" /\ rcall.ret = "RenderFailed"
    /\ renderer.font /\ renderer.dimensions = <<>>
    /\ app.mode = "Reading" /\ current_index = 1

\* C19: when the query of the terminal's geometry fails the viewport falls
\* back to a default geometry: once TuiManager::new has returned, the
\* viewport has dimensions and a canvas can be created.
C19_GeometryFallback ==
    pc \in {"loop", "render"} =>
        renderer.dimensions # <<>> /\ create_canvas(renderer) # <<>>

\* C20: with GraphicsCapability::None the session ends before the event
\* loop: the loop is never entered, the renderer is not initialised and
\* nothing is written to the terminal.
C20_NoGraphicsHalts ==
    capability = "None" =>
        /\ pc \in {"main", "new", "exited"}
        /\ renderer = KittyGraphicsRenderer_new
        /\ rcall = NoCall
        /\ stdout = <<>>

-----------------------------------------------------------------------------
(* Properties of the cursor's arithmetic and frame conditions *)

\* C30: for every i32 delta, i32::MAX and i32::MIN included, adjust_wpm
\* neither overflows nor wraps: the 32-bit sum is the exact one, the call does
\* not panic, a delta of i32::MAX ends at the maximum and a delta of i32::MIN
\* at the minimum.
C30_AdjustWpmNeverOverflows ==
    last.op = "adjust_wpm" =>
        /\ ~panicked
        /\ ~I32Overflows(last.w, last.delta)
        /\ last.delta = I32Max => wpm = wpm_range_end
        /\ last.delta = I32Min => wpm = wpm_range_start

\* C24: no operation of the cursor changes the token sequence; advance and
\* the two sentence jumps leave wpm as it was, adjust_wpm leaves
\* current_index as it was, and current_token / current_token_duration
\* change neither.
C24_FrameConditions ==
    [][/\ tokens' = tokens
       /\ last'.op \in {"advance", "jump_to_next_sentence", "jump_to_previous_sentence"} =>
              wpm' = wpm
       /\ last'.op = "adjust_wpm" => current_index' = current_index
       /\ last'.op = "current_token_duration" =>
              current_index' = current_index /\ wpm' = wpm]_vars

C24_Witness ==
    /\ last.op = "adjust_wpm"
    /\ wpm # last.w
    /\ Len(tokens) >= 3
    /\ current_index = LastIndex /\ current_index = last.idx

\* The integer nearest to 60000 / w, a half going away from zero.
RoundedQuotient(w) ==
    CHOOSE n \in 0..60000 : (2 * n - 1) * w <= 120000 /\ 120000 < (2 * n + 1) * w

\* C25: wpm_to_milliseconds(wpm) is 60000 / wpm rounded to the nearest
\* integer, halves away from zero; 165, 300, 333, 350 and 600 words per
\* minute give 364, 200, 180, 171 and 100 ms.
C25_WpmToMilliseconds ==
    (last.op = "wpm_to_milliseconds" /\ last.w >= 1) =>
        /\ last.dur = RoundedQuotient(last.w)
        /\ last.w = 165 => last.dur = 364
        /\ last.w = 300 => last.dur = 200
        /\ last.w = 333 => last.dur = 180
        /\ last.w = 350 => last.dur = 171
        /\ last.w = 600 => last.dur = 100

C25_Witness ==
    /\ last.op = "wpm_to_milliseconds"
    /\ last.w = 165 /\ last.dur = 364

-----------------------------------------------------------------------------
(* Properties of the anchor *)

\* C26: calculate_anchor_position gives 0 for a word of 0 or 1 characters,
\* 1 for 2 to 5, 2 for 6 to 9 and 3 for 10 or more, the characters being
\* counted and not the bytes.
C26_AnchorTable ==
    last.op = "calculate_anchor_position" =>
        LET n == Len(text)
        IN  /\ n <= 1 => last.dur = 0
            /\ (2 <= n /\ n <= 5) => last.dur = 1
            /\ (6 <= n /\ n <= 9) => last.dur = 2
            /\ n >= 10 => last.dur = 3

C26_Witness ==
    /\ last.op = "calculate_anchor_position"
    /\ Len(text) = 5 /\ \A i \in 1..5 : text[i] = "U+00E9"
    /\ last.dur = 1

\* The renderer as constructed, as TuiManager::new leaves it, and with the
\* dimensions of the viewport set.
RendererStates ==
    {KittyGraphicsRenderer_new,
     [KittyGraphicsRenderer_new EXCEPT !.font = TRUE, !.font_metrics = TRUE],
     [KittyGraphicsRenderer_new EXCEPT !.font = TRUE, !.font_metrics = TRUE,
                                       !.dimensions = <<Dims(64, 32)>>]}

\* C29: for a word of at least one character calculate_anchor_position is
\* below the number of its characters, so render_frame called with a word
\* and the anchor computed from it, as TuiManager::render_frame calls it,
\* does not return InvalidArguments.
C29_AnchorInsideWord ==
    (last.op = "calculate_anchor_position" /\ text # <<>>) =>
        /\ last.dur < chars_count(text)
        /\ \A self \in RendererStates :
               render_frame(self, word_of(Token(text, <<>>, FALSE)), last.dur, NoFailure).ret
                   # "InvalidArguments"

C29_Witness ==
    /\ last.op = "calculate_anchor_position"
    /\ text = <<"r">>
    /\ last.dur = 0

-----------------------------------------------------------------------------
(* Properties of the event loop *)

\* C21: the timeout given to event::poll is the duration of the current
\* token: the base delay times its punctuation multiplier and its length
\* penalty.
C21_PollTimeoutIsTokenDuration ==
    [][(pc = "loop" /\ last'.op = "poll" /\ last'.kind # "quit"
           /\ app.reading_state /\ current_index < Len(tokens)) =>
           last'.timeout = calculate_token_duration(tokens[current_index + 1], wpm)]_vars

\* C22: a poll that times out advances the cursor by one token, up to the
\* last, when the mode is Reading, and leaves current_index alone in every
\* other mode; it changes nothing else.  An event that is not a timeout moves
\* the cursor only as a sentence jump (j, k) or to the start of a newly
\* loaded document.
C22_TimeoutAdvances ==
    [][(pc = "loop" /\ last'.op = "poll" /\ last'.kind # "quit") =>
           /\ last'.kind = "timeout" =>
                  /\ current_index' =
                         IF app.mode = "Reading" /\ current_index + 1 < Len(tokens)
                         THEN current_index + 1 ELSE current_index
                  /\ UNCHANGED <<tokens, wpm, app>>
           /\ (last'.kind # "timeout" /\ current_index' # current_index) =>
                  \/ /\ last'.kind = "char" /\ last'.key \in {"j", "k"}
                     /\ tokens' = tokens
                     /\ tokens[current_index' + 1].is_sentence_start
                  \/ last'.kind = "enter" /\ current_index' = 0]_vars

C22_Witness ==
    /\ last.op = "poll" /\ last.kind = "timeout"
    /\ app.mode = "Reading"
    /\ Len(tokens) = 3 /\ current_index = 2

\* C23: once the mode is Quit the loop has returned: nothing follows the poll
\* that brought the quit signal but the drop of the TuiManager, and the
\* step that sets the mode to Quit neither moves the cursor nor transmits a
\* frame.
C23_QuitTerminates ==
    /\ [](app.mode = "Quit" =>
              /\ pc \in {"drop", "exited"}
              /\ last.op = "poll" /\ last.kind \in {"ctrl_c", "enter", "quit"})
    /\ [][app'.mode = "Quit" =>
              /\ current_index' = current_index
              /\ frames' = frames
              /\ \A k \in (Len(stdout) + 1)..Len(stdout') : stdout'[k].a # "T"]_vars

C23_Witness ==
    /\ app.mode = "Quit" /\ pc = "exited"
    /\ last.op = "poll" /\ last.kind = "ctrl_c"
    /\ app.reading_state /\ current_index = 1
    /\ rcall.op = "drop"

\* C28: App::get_render_state is defined in every state of the App the
\* event loop renders, a session over no tokens included, where it reports
\* no current word.
C28_RenderStateDefined ==
    /\ pc = "render" => ~get_render_state_panics(Current)
    /\ (pc = "render" /\ app.reading_state /\ tokens = <<>>) => current_word(Current) = <<>>
    /\ last.op = "render_tick" /\ ~last.called => ~panicked

\* C27: a reading session over at least one token that gets no input comes
\* to the last token by its timeouts and stays there, in Reading mode, with
\* the loop still running.
C27_ReachesLastToken ==
    <>[](/\ current_index = Len(tokens) - 1
         /\ app.mode = "Reading"
         /\ pc \in {"loop", "render"}
         /\ ~panicked)

C27_Witness ==
    /\ Len(tokens) = MaxTokens
    /\ current_index = Len(tokens) - 1
    /\ last.op = "poll" /\ last.kind = "timeout"
    /\ app.mode = "Reading" /\ pc = "render"

====
